---- MODULE Spec2Model ----
(***************************************************************************)
(* Model of lb7.py: a CurrencyObserver registry (a Python dict keyed by     *)
(* session id), the Socket.IO connection handlers that register and         *)
(* unregister clients, and the background thread currency_updater that      *)
(* fetches the rate table and notifies every registered client.            *)
(*                                                                         *)
(* The handlers and the updater run on different threads.  A step of the    *)
(* model is a stretch of code between two points where the interpreter may  *)
(* switch threads and the other thread's effect is visible: one handler,    *)
(* the fetch, the creation of the dict iterator, one iterator step, one     *)
(* loop body.                                                               *)
(***************************************************************************)
EXTENDS Integers, Sequences, FiniteSets, TLC

VARIABLES
    observers,  \* CurrencyObserver.observers: the dict, as its entry array
    pc,         \* position of the currency_updater thread
    exc,        \* the exception that ended the currency_updater thread
    data,       \* local `data` of currency_updater / notify
    it,         \* the dict value iterator of the for loop in notify
    entry,      \* local `entry` of notify
    cycle,      \* number of loop iterations of currency_updater started
    outbox,     \* per session: the 'update' messages emitted to its room,
                \* in order (those of the latest loop iterations)
    ev,         \* history: the last connection event handled
    lastOp,     \* history: per session, its last registry operation
    processed,  \* history: the (sid, currency) pairs the current notify saw
    views,      \* history: the registry contents during the current notify
    races       \* history: register/unregister calls during the current notify

vars == <<observers, pc, exc, data, it, entry, cycle, outbox, ev, lastOp,
          processed, views, races>>

----------------------------------------------------------------------------
(* Bounds *)

\* Number of loop iterations of currency_updater that are explored.
MaxCycles == 2

\* Number of entries the dict's entry array holds before it is rebuilt.
DictUsable == 3

\* Number of register/unregister calls explored while one notify is running.
MaxRaces == 2

Sids == {"s1", "s2"}

Codes == {"USD", "EUR"}

----------------------------------------------------------------------------
(* The documents response.json() can return *)

DocFull == [Valute |-> [USD |-> [Value |-> 90, Previous |-> 89],
                        EUR |-> [Value |-> 100, Previous |-> 99]]]

DocUsdOnly == [Valute |-> [USD |-> [Value |-> 91, Previous |-> 90]]]

DocNoTable == [error |-> "not found"]

DocNoPrevious == [Valute |-> [USD |-> [Value |-> 90, Previous |-> 89],
                              EUR |-> [Value |-> 100]]]

WellFormedDocs == {DocFull, DocUsdOnly}

Docs == WellFormedDocs \cup {DocNoTable, DocNoPrevious}

FetchErrors == {"ConnectionError", "JSONDecodeError"}

NoData == [none |-> TRUE]

----------------------------------------------------------------------------
(* The Python dict: an insertion-ordered entry array.  A deleted entry      *)
(* leaves a dummy behind; a new key is appended; the array is rebuilt       *)
(* without its dummies when it is full.                                     *)

Dummy == [key |-> "<dummy>", value |-> [none |-> TRUE]]

NoEntry == [none |-> TRUE]

Live(d) == {i \in 1..Len(d) : d[i] # Dummy}

DictUsed(d) == Cardinality(Live(d))

DictKeys(d) == {d[i].key : i \in Live(d)}

DictContains(d, k) == k \in DictKeys(d)

DictIndex(d, k) == CHOOSE i \in Live(d) : d[i].key = k

DictGetItem(d, k) == d[DictIndex(d, k)].value

DictCompact(d) == SelectSeq(d, LAMBDA e : e # Dummy)

DictSetItem(d, k, v) ==
    IF DictContains(d, k)
    THEN [d EXCEPT ![DictIndex(d, k)].value = v]
    ELSE IF Len(d) >= DictUsable
         THEN Append(DictCompact(d), [key |-> k, value |-> v])
         ELSE Append(d, [key |-> k, value |-> v])

DictDelItem(d, k) == [d EXCEPT ![DictIndex(d, k)] = Dummy]

\* iter(d.values()): position in the entry array, the size and the number
\* of items expected.
DictIter(d) == [pos |-> 1, used |-> DictUsed(d), len |-> DictUsed(d)]

NoIter == [pos |-> 0, used |-> 0, len |-> 0]

IterSizeChanged(d, i) == i.used # DictUsed(d)

IterRest(d, i) == {j \in Live(d) : j >= i.pos}

IterExhausted(d, i) == IterRest(d, i) = {}

IterIndex(d, i) == CHOOSE j \in IterRest(d, i) : \A k \in IterRest(d, i) : j <= k

----------------------------------------------------------------------------
(* CurrencyObserver and Client *)

Client(sid) == [sid |-> sid]

\* A register that keeps a history: a re-selection adds a second entry for
\* the session and leaves the first one in place.
register_append(obs, observer, currency_code) ==
    Append(obs, [key |-> observer.sid,
                 value |-> [observer |-> observer,
                            currency |-> currency_code]])

\* A register that keeps the currency of a session already registered.
register_setdefault(obs, observer, currency_code) ==
    IF DictContains(obs, observer.sid)
    THEN obs
    ELSE DictSetItem(obs, observer.sid,
                     [observer |-> observer, currency |-> currency_code])

register(obs, observer, currency_code) ==
    DictSetItem(obs, observer.sid,
                [observer |-> observer, currency |-> currency_code])

\* An unregister that deletes nothing.
unregister_keep(obs, observer) == [observers |-> obs, raised |-> FALSE]

\* An unregister without the membership test: del raises KeyError.
unregister_unguarded(obs, observer) ==
    IF DictContains(obs, observer.sid)
    THEN [observers |-> DictDelItem(obs, observer.sid), raised |-> FALSE]
    ELSE [observers |-> obs, raised |-> TRUE]

unregister(obs, observer) ==
    IF DictContains(obs, observer.sid)
    THEN [observers |-> DictDelItem(obs, observer.sid), raised |-> FALSE]
    ELSE [observers |-> obs, raised |-> FALSE]

\* The registry as a mapping: session id -> tracked currency.
Tracked(obs, s) ==
    IF DictContains(obs, s) THEN DictGetItem(obs, s).currency ELSE "absent"

View(obs) == [s \in Sids |-> Tracked(obs, s)]

\* lines 60-67: the payload for one entry, when its currency is in the table
CurrencyData(currency_code, doc) ==
    [currency_code |-> currency_code,
     current_rate  |-> doc.Valute[currency_code].Value,
     previous_rate |-> doc.Valute[currency_code].Previous]

\* socketio.emit('update', data, room=sid); cyc is history: the loop
\* iteration that fetched the snapshot the payload was built from.
\* A channel that hands over the newest message first.
emit_lifo(box, room, payload, cyc) ==
    [box EXCEPT ![room] = <<[event |-> "update", data |-> payload,
                             cyc |-> cyc]>> \o @]

emit(box, room, payload, cyc) ==
    [box EXCEPT ![room] = Append(@, [event |-> "update", data |-> payload,
                                     cyc |-> cyc])]

----------------------------------------------------------------------------
Init ==
    /\ observers = << >>
    /\ pc = "fetch"
    /\ exc = "none"
    /\ data = NoData
    /\ it = NoIter
    /\ entry = NoEntry
    /\ cycle = 0
    /\ outbox = [s \in Sids |-> << >>]
    /\ ev = [type |-> "none", sid |-> "", code |-> "", prev |-> "",
             emitted |-> "none", raised |-> FALSE]
    /\ lastOp = [s \in Sids |-> "none"]
    /\ processed = {}
    /\ views = {}
    /\ races = 0

InNotify == pc \in {"next", "body"}

updaterVars == <<pc, exc, data, it, entry, cycle, outbox, processed>>

\* A register/unregister call while notify is iterating is counted and the
\* registry contents after it are recorded.
Raced(obs) ==
    IF InNotify
    THEN /\ races < MaxRaces
         /\ races' = races + 1
         /\ views' = views \cup {View(obs)}
    ELSE UNCHANGED <<races, views>>

(* Connection handlers (lines 117-144).  What a handler emits back to its   *)
(* own client and whether it raised are recorded in ev by the logged        *)
(* variants below.                                                          *)

\* Handlers that share the thread of currency_updater: none runs while the
\* fetch is waiting.
BlockedByFetch == pc # "fetch"

\* line 147: currency_updater runs on a thread of its own, so a handler can
\* run wherever the updater stands, a pending fetch included.
HandlersRunnable == TRUE

\* A connect that subscribes the new session to the page's default currency.
handle_connect_subscribes(sid) ==
    /\ HandlersRunnable
    /\ observers' = register(observers, Client(sid), "USD")
    /\ Raced(observers')
    /\ UNCHANGED updaterVars

handle_connect(sid) ==
    /\ HandlersRunnable
    /\ UNCHANGED <<observers, races, views>>
    /\ UNCHANGED updaterVars

handle_select_currency(sid, currency_code) ==
    /\ HandlersRunnable
    /\ observers' = register(observers, Client(sid), currency_code)
    /\ Raced(observers')
    /\ UNCHANGED updaterVars

handle_disconnect(sid) ==
    /\ HandlersRunnable
    /\ observers' = unregister(observers, Client(sid)).observers
    /\ Raced(observers')
    /\ UNCHANGED updaterVars

Connect == \E s \in Sids : handle_connect(s) /\ UNCHANGED <<ev, lastOp>>

Select ==
    \E s \in Sids, c \in Codes :
        handle_select_currency(s, c) /\ UNCHANGED <<ev, lastOp>>

Disconnect == \E s \in Sids : handle_disconnect(s) /\ UNCHANGED <<ev, lastOp>>

Event(type, sid, code, emitted, raised) ==
    [type |-> type, sid |-> sid, code |-> code,
     prev |-> Tracked(observers, sid), emitted |-> emitted, raised |-> raised]

LoggedConnect ==
    \E s \in Sids :
        /\ handle_connect(s)
        /\ ev' = Event("connect", s, "", "client_id", FALSE)
        /\ UNCHANGED lastOp

LoggedSelect ==
    \E s \in Sids, c \in Codes :
        /\ handle_select_currency(s, c)
        /\ ev' = Event("select_currency", s, c, "currency_selected", FALSE)
        /\ lastOp' = [lastOp EXCEPT ![s] = c]

LoggedDisconnect ==
    \E s \in Sids :
        /\ handle_disconnect(s)
        /\ ev' = Event("disconnect", s, "", "none",
                       unregister(observers, Client(s)).raised)
        /\ lastOp' = [lastOp EXCEPT ![s] = "unregister"]

handlerVars == <<observers, ev, lastOp>>

(* currency_updater (lines 103-113) and notify (lines 50-68) *)

HasTable(doc) == "Valute" \in DOMAIN doc

InTable(doc, currency_code) ==
    IF HasTable(doc) THEN currency_code \in DOMAIN doc.Valute ELSE FALSE

HasRates(doc, currency_code) ==
    IF InTable(doc, currency_code)
    THEN {"Value", "Previous"} \subseteq DOMAIN doc.Valute[currency_code]
    ELSE FALSE

\* A notify that unregisters the session of the entry it skips or fails on.
RegistryPruned ==
    /\ observers' =
           IF pc = "body" /\ pc' = "dead"
           THEN unregister(observers, entry.observer).observers
           ELSE IF pc = "body" /\ ~InTable(data, entry.currency)
                THEN unregister(observers, entry.observer).observers
                ELSE observers
    /\ UNCHANGED <<ev, lastOp>>

\* currency_updater and notify only read self.observers: no step of the
\* thread writes the registry or the event log.
RegistryUntouched == UNCHANGED handlerVars

\* The locals of a frame that has returned or was unwound, and the history
\* of a notify that is over.
Unwind ==
    /\ it' = NoIter
    /\ entry' = NoEntry
    /\ processed' = {}
    /\ views' = {}
    /\ races' = 0

\* An exception leaves currency_updater: the thread ends.
Die(e) ==
    /\ pc' = "dead"
    /\ exc' = e
    /\ data' = NoData
    /\ Unwind

\* The messages of loop iteration n and later.
Since(box, n) == [s \in Sids |-> SelectSeq(box[s], LAMBDA m : m.cyc >= n)]

\* A timer that starts the next iteration while notify is still iterating.
StartCycle_timer(keep) ==
    /\ pc \in {"fetch", "next"}
    /\ cycle < MaxCycles
    /\ cycle' = cycle + 1
    /\ outbox' = Since(outbox, cycle + 1 - keep)

\* A loop iteration starts; outbox keeps the messages of the last `keep`
\* iterations before it.
StartCycle(keep) ==
    /\ pc = "fetch"
    /\ cycle < MaxCycles
    /\ cycle' = cycle + 1
    /\ outbox' = Since(outbox, cycle + 1 - keep)

\* line 111: get_currency_rates() raises
FetchFails(keep) ==
    /\ StartCycle(keep)
    /\ \E e \in FetchErrors : Die(e)
    /\ RegistryUntouched

\* A fetch whose result is dropped while an earlier snapshot is at hand.
FetchReturns_stale(keep) ==
    /\ StartCycle(keep)
    /\ \E doc \in Docs : data' = IF data = NoData THEN doc ELSE data
    /\ pc' = "notify"
    /\ UNCHANGED <<exc, it, entry, processed, views, races>>
    /\ RegistryUntouched

\* line 111: get_currency_rates() returns a document
FetchReturns(keep) ==
    /\ StartCycle(keep)
    /\ \E doc \in Docs : data' = doc
    /\ pc' = "notify"
    /\ UNCHANGED <<exc, it, entry, processed, views, races>>
    /\ RegistryUntouched

\* line 57: the for statement creates the iterator over observers.values()
NotifyStart ==
    /\ pc = "notify"
    /\ it' = DictIter(observers)
    /\ processed' = {}
    /\ views' = {View(observers)}
    /\ races' = 0
    /\ pc' = "next"
    /\ UNCHANGED <<exc, data, entry, cycle, outbox>>
    /\ RegistryUntouched

\* line 57: the iterator finds the dict's size changed, or an item it does
\* not expect
NextRaises ==
    /\ pc = "next"
    /\ \/ IterSizeChanged(observers, it)
       \/ /\ ~IterExhausted(observers, it)
          /\ it.len = 0
    /\ Die("RuntimeError")
    /\ UNCHANGED <<cycle, outbox>>
    /\ RegistryUntouched

\* line 57: the iterator is exhausted, notify returns
NextStops ==
    /\ pc = "next"
    /\ ~IterSizeChanged(observers, it)
    /\ IterExhausted(observers, it)
    /\ pc' = "sleep"
    /\ Unwind
    /\ UNCHANGED <<exc, data, cycle, outbox>>
    /\ RegistryUntouched

\* line 57: the iterator yields the next entry.  An interpreter that does
\* not count the items it expects yields an item also when it.len = 0,
\* where NextRaises is the other outcome.
NextYields ==
    /\ pc = "next"
    /\ ~IterSizeChanged(observers, it)
    /\ ~IterExhausted(observers, it)
    /\ LET i == IterIndex(observers, it) IN
        /\ entry' = observers[i].value
        /\ it' = [it EXCEPT !.pos = i + 1,
                            !.len = IF it.len > 0 THEN it.len - 1 ELSE 0]
    /\ pc' = "body"
    /\ UNCHANGED <<exc, data, cycle, outbox, processed, views, races>>
    /\ RegistryUntouched

Seen == processed \cup {<<entry.observer.sid, entry.currency>>}

\* lines 58-68: data['Valute'] or a rate field is missing
BodyKeyError ==
    /\ pc = "body"
    /\ \/ ~HasTable(data)
       \/ /\ InTable(data, entry.currency)
          /\ ~HasRates(data, entry.currency)
    /\ Die("KeyError")
    /\ UNCHANGED <<cycle, outbox>>
    /\ RegistryUntouched

\* lines 58-60: the entry's currency is not in the table
BodySkips ==
    /\ pc = "body"
    /\ HasTable(data)
    /\ ~InTable(data, entry.currency)
    /\ pc' = "next"
    /\ processed' = Seen
    /\ UNCHANGED <<exc, data, it, entry, cycle, outbox, views, races>>
    /\ RegistryUntouched

Sendable ==
    /\ pc = "body"
    /\ HasRates(data, entry.currency)

\* lines 58-68 and 91: the payload is built and emitted
BodySends ==
    /\ Sendable
    /\ outbox' = emit(outbox, entry.observer.sid,
                      CurrencyData(entry.currency, data), cycle)
    /\ pc' = "next"
    /\ processed' = Seen
    /\ UNCHANGED <<exc, data, it, entry, cycle, views, races>>
    /\ RegistryUntouched

\* lines 58-68 and 91: socketio.emit raises
BodySendRaises ==
    /\ Sendable
    /\ Die("SendError")
    /\ UNCHANGED <<cycle, outbox>>
    /\ RegistryUntouched

\* line 113
Sleep ==
    /\ pc = "sleep"
    /\ pc' = "fetch"
    /\ UNCHANGED <<exc, data, it, entry, cycle, outbox, processed, views,
                   races>>
    /\ RegistryUntouched

Next ==
    \/ Connect
    \/ Select
    \/ Disconnect
    \/ FetchFails(0)
    \/ FetchReturns(0)
    \/ NotifyStart
    \/ NextRaises
    \/ NextStops
    \/ NextYields
    \/ BodyKeyError
    \/ BodySkips
    \/ BodySends
    \/ BodySendRaises
    \/ Sleep

\* The whole program: the handlers and the updater thread.  outbox holds
\* the messages of the current loop iteration.
Spec == Init /\ [][Next]_vars

NextRegistry ==
    \/ LoggedConnect
    \/ LoggedSelect
    \/ LoggedDisconnect

\* The registry driven by connection events alone, with the event log.
SpecRegistry == Init /\ [][NextRegistry]_vars

NextPoll ==
    \/ ~InNotify /\ Connect
    \/ ~InNotify /\ Select
    \/ ~InNotify /\ Disconnect
    \/ FetchFails(1)
    \/ FetchReturns(1)
    \/ NotifyStart
    \/ NextStops
    \/ NextYields
    \/ BodyKeyError
    \/ BodySkips
    \/ BodySends
    \/ BodySendRaises
    \/ Sleep

\* Consecutive loop iterations: outbox holds the messages of the current and
\* the previous iteration; connection events arrive between two notify calls,
\* so the iterator never raises.
SpecPoll == Init /\ [][NextPoll]_vars

----------------------------------------------------------------------------
(* The registry contract (SpecRegistry) *)

NetEffect(s) == IF lastOp[s] \in Codes THEN lastOp[s] ELSE "absent"

EntriesOf(obs, s) == {i \in Live(obs) : obs[i].key = s}

\* C1: after any sequence of register/unregister calls from the empty
\* registry, a session is present iff its last operation was a register, it
\* has one entry, and its tracked currency is the code of that register.
C1_NetEffect ==
    \A s \in Sids :
        /\ Tracked(observers, s) = NetEffect(s)
        /\ Cardinality(EntriesOf(observers, s)) =
               (IF lastOp[s] \in Codes THEN 1 ELSE 0)

\* C1 witness: s1 was registered and unregistered, s2 was registered with
\* one code and then with another.
C1_Witness ==
    /\ lastOp["s1"] = "unregister"
    /\ Len(observers) > 1
    /\ ev.type = "select_currency"
    /\ ev.sid = "s2"
    /\ ev.prev = "USD"
    /\ ev.code = "EUR"

\* C9: unregister of a session that is not in the registry does not raise
\* and leaves the registry, the entries of all other sessions included,
\* unchanged.
C9_UnregisterAbsentIsNoOp ==
    [][\A s \in Sids :
         (/\ handle_disconnect(s)
          /\ ev'.type = "disconnect"
          /\ ev'.sid = s
          /\ ~DictContains(observers, s))
         => (/\ ~ev'.raised
             /\ observers' = observers
             /\ View(observers') = View(observers))]_vars

\* C9 witness: a disconnect of an absent session has been handled while
\* another session is registered.
C9_Witness ==
    /\ ev.type = "disconnect"
    /\ ev.prev = "absent"
    /\ DictUsed(observers) > 0

\* C10: register(s, B) after register(s, A) leaves exactly one entry for s,
\* with currency B; registering the same (s, A) again leaves the registry
\* contents as they were; the entries of other sessions are unchanged.
C10_LastWriteWins ==
    [][\A s \in Sids, c \in Codes :
         (/\ handle_select_currency(s, c)
          /\ ev'.type = "select_currency"
          /\ ev'.sid = s
          /\ ev'.code = c)
         => (/\ Cardinality(EntriesOf(observers', s)) = 1
             /\ Tracked(observers', s) = c
             /\ \A t \in Sids \ {s} :
                    Tracked(observers', t) = Tracked(observers, t)
             /\ (Tracked(observers, s) = c
                    => View(observers') = View(observers)))]_vars

\* C10 witness: a session registered with one code has registered again
\* with another, while the other session is registered.
C10_Witness ==
    /\ ev.type = "select_currency"
    /\ ev.prev \in Codes
    /\ ev.prev # ev.code
    /\ Tracked(observers, ev.sid) = ev.code
    /\ DictUsed(observers) = 2

----------------------------------------------------------------------------
(* The dispatch cycle under concurrent connection events (Spec) *)

\* The (sid, currency) pairs of registry contents v.
Pairs(v) == {<<s, v[s]>> : s \in {t \in Sids : v[t] # "absent"}}

NotifyReturns == pc = "next" /\ pc' = "sleep"

\* C2: with register/unregister calls interleaved, a dispatch cycle never
\* fails on the registry and runs to completion, and the entries it has
\* processed when it completes are the registry contents at one point in
\* time of the cycle.
C2_ConsistentDispatch ==
    [][/\ exc' # "RuntimeError"
       /\ NotifyReturns => \E v \in views : Pairs(v) = processed]_vars

\* C3: a failed fetch makes no delivery in that cycle and raises nothing
\* out of the cycle.
C3_FetchFailureSkipsCycle ==
    exc \in FetchErrors
        => /\ pc # "dead"
           /\ \A s \in Sids : outbox[s] = << >>

\* C4: the poll loop is never permanently stopped.
C4_PollLoopNeverStops == pc # "dead"

SendFails == Sendable /\ outbox' = outbox /\ pc' # "body"

\* C5: when one send fails, nothing is raised out of the cycle and the cycle
\* goes on to the remaining entries, so that every other registered
\* subscriber is served.
C5_DeliveryFailureIsolated ==
    [][SendFails => (pc' = "next" /\ exc' = "none" /\ it' = it)]_vars

CycleEnds == InNotify /\ pc' \in {"sleep", "dead"}

ExpectedBox(s) ==
    LET c == Tracked(observers, s) IN
    IF InTable(data, c)
    THEN <<[event |-> "update",
            data |-> [currency_code |-> c,
                      current_rate |-> data.Valute[c].Value,
                      previous_rate |-> data.Valute[c].Previous],
            cyc |-> cycle]>>
    ELSE << >>

\* C6: a cycle with a well-formed snapshot and no concurrent registry change
\* delivers exactly one payload, with the snapshot's values, to each
\* registered session whose code is in the snapshot, and nothing else.
C6_ExactDeliveries ==
    [][(CycleEnds /\ data \in WellFormedDocs /\ races = 0)
         => \A s \in Sids : outbox'[s] = ExpectedBox(s)]_vars

\* The deliveries of such a cycle when, in addition, no send raises (holds).
ExactDeliveriesWhenNoSendFails ==
    [][(CycleEnds /\ data \in WellFormedDocs /\ races = 0
            /\ exc' # "SendError")
         => \A s \in Sids : outbox'[s] = ExpectedBox(s)]_vars

\* C7: when an update is sent to a session, that session is in the registry.
C7_NoUpdateToAbsent ==
    [][\A s \in Sids :
         Len(outbox'[s]) > Len(outbox[s]) => DictContains(observers, s)]_vars

----------------------------------------------------------------------------
(* Consecutive cycles (SpecPoll) *)

\* C8: the messages a session receives are in the order of the loop
\* iterations whose snapshots they were built from.
C8_MonotonicDelivery ==
    \A s \in Sids :
        \A i, j \in 1..Len(outbox[s]) :
            i < j => outbox[s][i].cyc <= outbox[s][j].cyc

\* C8 witness: a session has received payloads of two consecutive loop
\* iterations, built from different snapshots.
C8_Witness ==
    \E s \in Sids :
        \E i, j \in 1..Len(outbox[s]) :
            /\ i < j
            /\ outbox[s][j].cyc = outbox[s][i].cyc + 1
            /\ outbox[s][i].data # outbox[s][j].data

----------------------------------------------------------------------------
(* Further properties of the dispatch cycle (Spec) *)

\* C11: within one dispatch cycle each session is sent at most one payload,
\* also when registrations of that session interleave with the cycle.
C11_AtMostOnePerCycle == \A s \in Sids : Len(outbox[s]) <= 1

\* C12: a cycle whose document lacks the rate table, or has an entry lacking
\* its current or previous value, delivers no payload at all.
C12_MalformedDocumentSkipsCycle ==
    data \in Docs \ WellFormedDocs => \A s \in Sids : outbox[s] = << >>

\* C13: no step of a dispatch cycle changes the registry, whatever the
\* outcome of the step (delivery, skip, failure): the registry changes only
\* in register and unregister.
C13_CycleLeavesRegistry ==
    [][pc' # pc => observers' = observers]_vars

\* C13 witness: the cycle has skipped a session whose code is not in the
\* snapshot, and the session is still registered with that code.
C13_Witness ==
    /\ pc = "next"
    /\ \E s \in Sids :
        /\ Tracked(observers, s) \in Codes
        /\ <<s, Tracked(observers, s)>> \in processed
        /\ HasTable(data)
        /\ ~InTable(data, Tracked(observers, s))

----------------------------------------------------------------------------
(* Connection events while the fetch is pending (SpecRegistry) *)

\* C14: in every state where the updater waits on the fetch, a select and a
\* disconnect of any session can be handled, and the handler completes with
\* its effect on the registry visible while the fetch is still pending.
C14_FetchDoesNotBlockEvents ==
    /\ [](pc = "fetch" =>
            \A s \in Sids :
                /\ ENABLED LoggedDisconnect
                /\ ENABLED LoggedSelect
                /\ ENABLED (handle_disconnect(s) /\ UNCHANGED <<ev, lastOp>>)
                /\ \A c \in Codes :
                       ENABLED (handle_select_currency(s, c)
                                    /\ UNCHANGED <<ev, lastOp>>))
    /\ [][(pc = "fetch" /\ ev' # ev) =>
            /\ pc' = "fetch"
            /\ ev'.type = "select_currency" =>
                   Tracked(observers', ev'.sid) = ev'.code
            /\ ev'.type = "disconnect" =>
                   Tracked(observers', ev'.sid) = "absent"]_vars

\* C14 witness: with the fetch pending, a registered session has
\* disconnected and is gone from the registry, the other one is registered.
C14_Witness ==
    /\ pc = "fetch"
    /\ ev.type = "disconnect"
    /\ ev.prev \in Codes
    /\ Tracked(observers, ev.sid) = "absent"
    /\ DictUsed(observers) = 1

----------------------------------------------------------------------------
(* The sequence of cycles (SpecPoll) *)

\* C15: cycles are strictly sequential: a fetch starts only when no notify
\* is in flight, and the updater comes back to the fetch only through the
\* sleep that follows a notify whose iterator was exhausted, that is after
\* every delivery of the cycle before has been attempted.
C15_CyclesSequential ==
    [][/\ cycle' # cycle =>
            (pc = "fetch" /\ it = NoIter /\ entry = NoEntry
                /\ cycle' = cycle + 1)
       /\ (pc' = "fetch" /\ pc # "fetch") => pc = "sleep"
       /\ (pc' = "sleep" /\ pc # "sleep") =>
            (pc = "next" /\ IterExhausted(observers, it))
       /\ \A s \in Sids :
            Len(outbox'[s]) > Len(outbox[s]) =>
                (cycle' = cycle /\ outbox'[s][Len(outbox'[s])].cyc = cycle)
      ]_vars

\* C15 witness: the second cycle's notify is running after the first cycle
\* has made its deliveries.
C15_Witness ==
    /\ cycle = 2
    /\ pc = "body"
    /\ \E s \in Sids : outbox[s] # << >> /\ outbox[s][1].cyc = 1

\* The payloads of the running iteration, all sessions together.
SentThisCycle ==
    UNION {{outbox[s][i] : i \in 1..Len(outbox[s])} : s \in Sids}

\* C16: one fetch per cycle and no snapshot reused: the snapshot changes
\* only in the step that starts a cycle (or is dropped when the thread
\* ends), whatever document the fetch returns is the one notify is given,
\* no step starts a cycle without fetching again, and every payload sent in
\* a cycle carries the rates of the snapshot fetched in that cycle.
C16_PayloadFromOwnSnapshot ==
    /\ []((pc = "fetch" /\ cycle < MaxCycles) =>
            \A d \in Docs : ENABLED (FetchReturns(1) /\ data' = d))
    /\ []((pc \in {"notify", "next", "body", "sleep"}) =>
            \A m \in SentThisCycle :
                m.cyc = cycle =>
                    m.data = CurrencyData(m.data.currency_code, data))
    /\ [][/\ data' # data =>
                \/ pc = "fetch" /\ cycle' = cycle + 1
                \/ pc' = "dead" /\ data' = NoData
          /\ cycle' # cycle => (pc = "fetch" /\ pc' \in {"notify", "dead"})
          /\ \A s \in Sids :
                Len(outbox'[s]) > Len(outbox[s]) =>
                    /\ data' = data
                    /\ outbox'[s][Len(outbox'[s])].data =
                           CurrencyData(entry.currency, data)
         ]_vars

\* C16 witness: one session got the rates of the first snapshot in the
\* first cycle and the different rates of the second snapshot in the second.
C16_Witness ==
    /\ cycle = 2
    /\ data = DocUsdOnly
    /\ \E s \in Sids :
        /\ Len(outbox[s]) = 2
        /\ outbox[s][1] = [event |-> "update", cyc |-> 1,
                           data |-> CurrencyData("USD", DocFull)]
        /\ outbox[s][2] = [event |-> "update", cyc |-> 2,
                           data |-> CurrencyData("USD", DocUsdOnly)]

----------------------------------------------------------------------------
(* The loop and the number of subscribers (Spec) *)

\* A cycle over an empty registry whose fetch has returned: notify makes no
\* delivery and returns, and the updater goes on to sleep.
EmptyRegistryCycleWhenFetchReturns ==
    [][/\ (pc = "notify" /\ DictUsed(observers) = 0 /\ pc' # pc) =>
            (pc' = "next" /\ it'.used = 0)
       /\ (pc = "next" /\ it.used = 0 /\ DictUsed(observers) = 0
              /\ pc' # pc) =>
            (pc' = "sleep" /\ \A s \in Sids : outbox'[s] = << >>)
      ]_vars

\* C17: the loop does not depend on the number of subscribers: a cycle that
\* starts with an empty registry fetches, delivers nothing, and leaves the
\* loop running for the next cycle.
C17_EmptyRegistryCycleProceeds ==
    [][/\ (cycle' # cycle /\ DictUsed(observers) = 0) => pc' = "notify"
       /\ (pc = "notify" /\ DictUsed(observers) = 0 /\ pc' # pc) =>
            (pc' = "next" /\ it'.used = 0)
       /\ (pc = "next" /\ it.used = 0 /\ DictUsed(observers) = 0
              /\ pc' # pc) =>
            (pc' = "sleep" /\ \A s \in Sids : outbox'[s] = << >>)
      ]_vars

----------------------------------------------------------------------------
(* Who is sent updates (Spec) *)

\* The session has had no entry in the registry since notify was called.
AbsentThroughout(s) == \A v \in views : v[s] = "absent"

\* C18: only a select creates a subscription.  A connect is always possible
\* and never changes the registry, and a session with no entry from the
\* start of a cycle on (never selected, or disconnected since its last
\* select) is sent no update in that cycle.
C18_OnlySelectSubscribes ==
    /\ [](\A s \in Sids :
            /\ ENABLED (handle_connect(s) /\ UNCHANGED <<ev, lastOp>>)
            /\ ~ENABLED (handle_connect(s) /\ observers' # observers
                            /\ UNCHANGED <<ev, lastOp>>))
    /\ [](InNotify =>
            \A s \in Sids : AbsentThroughout(s) => outbox[s] = << >>)
    /\ [][\A s \in Sids :
            Len(outbox'[s]) > Len(outbox[s]) => ~AbsentThroughout(s)]_vars

\* C18 witness: after a disconnect (the dict holds a deleted entry) a cycle
\* has delivered to one session and nothing to the other, which has had no
\* entry since notify began.
C18_Witness ==
    /\ pc = "next"
    /\ \E i \in 1..Len(observers) : observers[i] = Dummy
    /\ \E s, t \in Sids :
        /\ AbsentThroughout(s)
        /\ outbox[s] = << >>
        /\ outbox[t] # << >>

\* The codes the registry has held for s since notify was called.
CodesHeld(s) == {v[s] : v \in views} \ {"absent"}

\* C19: a session is sent the code it last selected.  Every payload sent to
\* s carries a code the registry held for s at some moment of the running
\* notify no later than the send; so when s re-selected B before the cycle
\* and has not selected since (B is the only code held), every payload of
\* the cycle to s carries B and none the code selected before.
C19_SendsSelectedCode ==
    /\ [](InNotify =>
            \A s \in Sids, B \in Codes :
                CodesHeld(s) \subseteq {B} =>
                    \A i \in 1..Len(outbox[s]) :
                        outbox[s][i].cyc = cycle =>
                            outbox[s][i].data.currency_code = B)
    /\ [][\A s \in Sids :
            Len(outbox'[s]) > Len(outbox[s]) =>
                outbox'[s][Len(outbox'[s])].data.currency_code
                    \in CodesHeld(s)]_vars

\* C19 witness: a session re-selected while notify was running, before its
\* entry was reached, and was then sent the new code and nothing else.
C19_Witness ==
    /\ pc = "next"
    /\ \E s \in Sids :
        /\ CodesHeld(s) = {"USD", "EUR"}
        /\ Tracked(observers, s) = "EUR"
        /\ Len(outbox[s]) = 1
        /\ outbox[s][1].data.currency_code = "EUR"

====
